---- MODULE Spec2Model ----
(***************************************************************************)
(* Model of prost's Solver<T> (src/examples/ex_rof.m, the embedded         *)
(* solver.cpp) and of the MATLAB command dispatcher                        *)
(* (src/matlab/+prost/private/prost.cpp).                                  *)
(***************************************************************************)
EXTENDS Integers, Sequences, FiniteSets, TLC

(***************************************************************************)
(* Bounds of the model.                                                    *)
(***************************************************************************)
MaxIters == 3        \* opts_.max_iters ranges over 0..MaxIters
MaxCbacks == 3       \* opts_.num_cback_calls ranges over 0..MaxCbacks
MaxRes == 1          \* residuals range over 0..MaxRes; the tolerances are 1
MaxDim == 2          \* the Solver's problem has 1..MaxDim rows and one column;
                     \* the operator of eval_linop has 1..MaxDim rows and columns
MaxSolves == 2       \* Solve calls after one Initialize
MaxLhs == 4          \* nlhs of an invocation ranges over 0..MaxLhs
MaxRhs == 5          \* nrhs of an eval_linop / eval_prox invocation ranges over 1..MaxRhs
MaxLen == 2          \* lengths of host vectors and of a prox range over 1..MaxLen
MaxGpuId == 1        \* set_gpu selects a device id in 0..MaxGpuId
NumGpus == 1         \* devices 0..NumGpus-1 exist
MaxLock == 2         \* init is not invoked beyond this lock count
MaxNum == 3          \* x0 ranges over k/MaxDen for k in -MaxNum..MaxNum,
                     \* tau and alpha over k/MaxDen for k in -1..MaxNum,
                     \* beta over k/MaxDen for k in -1..1
MaxDen == 2          \* the denominator of the grid of the 1D prox arguments

(***************************************************************************)
(* Program constants.                                                      *)
(***************************************************************************)
CbDisabled == 100000000   \* the 1e8 pushed on cb_iters when the schedule is off

VARIABLES
  pc,                     \* position of the client / of Solve
  opts_,                  \* Solver::opts_
  problem_,               \* the shared Problem
  backend_,               \* the shared Backend
  i,                      \* loop index of Solve
  cb_iters,               \* std::list<double> cb_iters, as <<numerator, denominator>> pairs
  result,                 \* ConvergenceResult result
  primal_res, dual_res, eps_pri, eps_dua,
  is_converged, is_stopped,
  cur_primal_sol_, cur_primal_constr_sol_, cur_dual_sol_, cur_dual_constr_sol_,
  utInterruptPending,     \* the host's interrupt flag
  exc,                    \* message prefix of the exception Initialize raised last
  hist,                   \* observation of the current Solve (counters, last callback)
  mexpc,                  \* position of the dispatcher: "host" between invocations
  call,                   \* the arguments of the current invocation of mexFunction
  current_gpu_device,     \* static int current_gpu_device
  lockCount,              \* the module's lock count (mexLock / mexUnlock)
  mexlog,                 \* the calls made by the current invocation, in order
  thrown,                 \* what() of the Exception in flight, "" if none
  plhs,                   \* the output slots the invocation wrote
  oobRead,                \* the invocation read past the end of a host array
  hostError,              \* the message the host reports for the invocation, "" if none
  prox                    \* a 1D prox function, its arguments and what it returned

locals == <<i, cb_iters, result, primal_res, dual_res, eps_pri, eps_dua,
            is_converged, is_stopped>>
bufs == <<cur_primal_sol_, cur_primal_constr_sol_, cur_dual_sol_, cur_dual_constr_sol_>>
solverOnly == <<pc, opts_, problem_, backend_, locals, bufs, exc, hist>>
mexVars == <<mexpc, call, current_gpu_device, lockCount, mexlog, thrown, plhs, oobRead,
             hostError, prox>>
vars == <<solverOnly, utInterruptPending, mexVars>>

kConverged == "Converged"
kStoppedMaxIters == "StoppedMaxIters"
kStoppedUser == "StoppedUser"

NoException == "none"
ProblemFailed == "Failed to initialize the problem. Reason: "
BackendFailed == "Failed to initialize the backend. Reason: "

EmptyVec == [len |-> 0, vec |-> "none", it |-> 0]

NoHist == [solves |-> 0, inits |-> 0, dualizes |-> 0,
           performs |-> 0, polls |-> 0, fetches |-> 0, cbacks |-> 0,
           fetchedThisIter |-> FALSE, cbackThisIter |-> FALSE, cbackRet |-> FALSE,
           cbackArgs |-> <<>>, ub |-> FALSE,
           interrupts |-> 0, truePolls |-> 0, stoppedSolves |-> 0]

(***************************************************************************)
(* Pure parts of the code.                                                 *)
(***************************************************************************)

\* Problem::Dualize: exchanges the primal and the dual side of the problem.
Dualize(p) ==
  [p EXCEPT !.dualized = ~p.dualized, !.nrows = p.ncols, !.ncols = p.nrows]

\* opts_.x0.swap(opts_.y0)
SwapX0Y0(o) == [o EXCEPT !.x0 = o.y0, !.y0 = o.x0]

\* linspace(start, end, num): num points spaced linearly over [start, end];
\* point k is start + k*(end-start)/(num-1), kept as an exact fraction.
linspace(start, end, num) ==
  [k \in 1..num |-> <<start * (num - 1) + (k - 1) * (end - start), num - 1>>]

\* int i compared with a double of the list: i >= q
GeqFront(n, q) == n * q[2] >= q[1]

\* the schedule built at the head of Solve
Schedule(o) ==
  IF o.num_cback_calls >= 2
    THEN linspace(0, o.max_iters - 1, o.num_cback_calls)
    ELSE << <<CbDisabled, 1>> >>

\* slip: the loop runs once more
LoopCond_Leq(n, o) == n <= o.max_iters

\* for(...; i < opts_.max_iters; ...)
LoopCond(n, o) == n < o.max_iters

\* slip: a residual equal to its tolerance counts as converged
ResidualsConverged_Leq(pr, dr, ep, ed) == (pr <= ep) /\ (dr <= ed)

\* (primal_res < eps_pri) && (dual_res < eps_dua)
ResidualsConverged(pr, dr, ep, ed) == (pr < ep) /\ (dr < ed)

\* slip: the interrupt flag is not cleared
MexStoppingCallback_NoClear(pending) == <<pending, pending>>

\* MexStoppingCallback: <<return value, new value of the interrupt flag>>
MexStoppingCallback(pending) ==
  IF pending THEN <<TRUE, FALSE>> ELSE <<FALSE, pending>>

\* slip: the last iteration is not a callback point
RunCallbackNow_NoLast(n, front, conv, stopped, o) ==
  GeqFront(n, front) \/ conv \/ stopped

\* i >= cb_iters.front() || is_converged || is_stopped || i == max_iters - 1
RunCallbackNow(n, front, conv, stopped, o) ==
  GeqFront(n, front) \/ conv \/ stopped \/ n = o.max_iters - 1

\* slip: a single callback counts as none
CallbackEnabled_Two(o) == o.num_cback_calls >= 2

\* if(opts_.num_cback_calls >= 1)
CallbackEnabled(o) == o.num_cback_calls >= 1

\* slip: the buffers are not exchanged for the dual problem
IntermCallbackArgs_NoSwap(o, n, primal, dual) == <<n + 1, primal, dual>>

\* the arguments handed to interm_cb_
IntermCallbackArgs(o, n, primal, dual) ==
  IF o.solve_dual_problem THEN <<n + 1, dual, primal>> ELSE <<n + 1, primal, dual>>

\* slip: the return value of the callback is dropped
JoinCallback_Ignore(conv, ret) == conv

\* is_converged |= interm_cb_(...)
JoinCallback(conv, ret) == conv \/ ret

\* slip: convergence is tested before the user stop
BreakResult_ConvergedFirst(stopped, conv) ==
  IF conv THEN kConverged ELSE IF stopped THEN kStoppedUser ELSE ""

\* slip: the user stop is not tested
BreakResult_NoStop(stopped, conv) == IF conv THEN kConverged ELSE ""

\* if(is_stopped) {...} / if(is_converged) {...}: the result of a break, or "" to go on
BreakResult(stopped, conv) ==
  IF stopped THEN kStoppedUser ELSE IF conv THEN kConverged ELSE ""

\* slip: the problem is not restored
RestoreNeeded_Never(o) == FALSE

\* if(opts_.solve_dual_problem) at the end of Solve
RestoreNeeded(o) == o.solve_dual_problem

\* if(opts_.solve_dual_problem) in Initialize
DualizeAtInit(o) == o.solve_dual_problem

\* slip: the primal buffer is returned for the dual problem as well
cur_primal_sol_NoSwap(o, primal, dual) == primal

\* Solver::cur_primal_sol, cur_dual_sol, cur_primal_constr_sol, cur_dual_constr_sol
cur_primal_sol(o, primal, dual) == IF o.solve_dual_problem THEN dual ELSE primal
cur_dual_sol(o, primal, dual) == IF o.solve_dual_problem THEN primal ELSE dual
cur_primal_constr_sol(o, pc_sol, dc_sol) == IF o.solve_dual_problem THEN dc_sol ELSE pc_sol
cur_dual_constr_sol(o, pc_sol, dc_sol) == IF o.solve_dual_problem THEN pc_sol ELSE dc_sol

(***************************************************************************)
(* The Solver's client: construction, SetOptions, Initialize.              *)
(***************************************************************************)
OptionSet ==
  [max_iters : 0..MaxIters, num_cback_calls : 0..MaxCbacks,
   solve_dual_problem : BOOLEAN, x0 : {"x0"}, y0 : {"y0"}]

DefaultOptions ==
  [max_iters |-> 0, num_cback_calls |-> 0, solve_dual_problem |-> FALSE,
   x0 |-> "x0", y0 |-> "y0"]

\* the arguments of an invocation: the command, the counts, and what the handlers
\* read from the host arrays and get from the factory
BaseCall ==
  [cmd |-> "", nlhs |-> 0, nrhs |-> 0, gpuId |-> 0, failAt |-> "none",
   rhsLen |-> 1, rhsCols |-> 1, transpose |-> FALSE, nrows |-> 1, ncols |-> 1,
   size |-> 1, tauLen |-> 1, solveResult |-> kConverged]

\* the dispatcher between invocations, nothing called yet
MexStart ==
  /\ mexpc = "host"
  /\ call = BaseCall
  /\ current_gpu_device = 0
  /\ lockCount = 0
  /\ mexlog = <<>>
  /\ thrown = ""
  /\ plhs = {}
  /\ oobRead = FALSE
  /\ hostError = ""

\* no 1D prox function is under evaluation
NoProx ==
  [fn |-> "", x0 |-> <<0, 1>>, tau |-> <<0, 1>>, alpha |-> <<0, 1>>, beta |-> <<0, 1>>,
   stage |-> "idle", result |-> <<0, 1>>, again |-> <<0, 1>>]

\* a Solver just constructed on a problem with r rows and c columns
SolverStart(r, c) ==
  /\ pc = "constructed"
  /\ opts_ = DefaultOptions
  /\ problem_ = [nrows |-> r, ncols |-> c, dualized |-> FALSE, initialized |-> FALSE]
  /\ backend_ = [hasProblem |-> FALSE, hasOptions |-> FALSE, initialized |-> FALSE, iter |-> 0]
  /\ i = 0 /\ cb_iters = <<>> /\ result = kStoppedMaxIters
  /\ primal_res = 0 /\ dual_res = 0 /\ eps_pri = 1 /\ eps_dua = 1
  /\ is_converged = FALSE /\ is_stopped = FALSE
  /\ cur_primal_sol_ = EmptyVec /\ cur_primal_constr_sol_ = EmptyVec
  /\ cur_dual_sol_ = EmptyVec /\ cur_dual_constr_sol_ = EmptyVec
  /\ utInterruptPending = FALSE
  /\ exc = NoException
  /\ hist = NoHist

Init ==
  /\ \E r \in 1..MaxDim : SolverStart(r, 1)
  /\ MexStart
  /\ prox = NoProx

SetOptions ==
  /\ pc = "constructed"
  /\ \E o \in OptionSet : opts_' = o
  /\ pc' = "configured"
  /\ UNCHANGED <<problem_, backend_, locals, bufs, utInterruptPending, exc, hist, mexVars>>

\* slip: a failure of the problem is reported with the backend's prefix
InitializeException_SamePrefix(failAt) ==
  IF failAt = "none" THEN NoException ELSE BackendFailed

\* the two catch blocks of Initialize: the prefix of the Exception it throws when
\* the call failAt throws
InitializeException(failAt) ==
  IF failAt = "problem" THEN ProblemFailed
  ELSE IF failAt = "none" THEN NoException
  ELSE BackendFailed

\* Solver::Initialize; failAt names the call that throws, if any.
InitializeFrom(failAt) ==
  IF failAt = "problem"
    THEN /\ exc' = InitializeException(failAt)
         /\ pc' = "failed"
         /\ hist' = [hist EXCEPT !.inits = @ + 1]
         /\ UNCHANGED <<opts_, problem_, backend_, bufs>>
    ELSE LET p1 == [problem_ EXCEPT !.initialized = TRUE]
             p2 == IF DualizeAtInit(opts_) THEN Dualize(p1) ELSE p1
             o2 == IF DualizeAtInit(opts_) THEN SwapX0Y0(opts_) ELSE opts_
         IN /\ problem_' = p2
            /\ opts_' = o2
            /\ hist' = [hist EXCEPT !.inits = @ + 1,
                                    !.dualizes = IF DualizeAtInit(opts_) THEN @ + 1 ELSE @]
            /\ backend_' =
                 [hasProblem |-> backend_.hasProblem \/ failAt # "SetProblem",
                  hasOptions |-> backend_.hasOptions \/ failAt \notin {"SetProblem", "SetOptions"},
                  initialized |-> backend_.initialized \/ failAt = "none",
                  iter |-> IF failAt = "none" THEN 0 ELSE backend_.iter]
            /\ exc' = InitializeException(failAt)
            /\ IF failAt = "none"
                 THEN /\ pc' = "ready"
                      /\ cur_primal_sol_' = [cur_primal_sol_ EXCEPT !.len = p2.ncols]
                      /\ cur_primal_constr_sol_' = [cur_primal_constr_sol_ EXCEPT !.len = p2.nrows]
                      /\ cur_dual_sol_' = [cur_dual_sol_ EXCEPT !.len = p2.nrows]
                      /\ cur_dual_constr_sol_' = [cur_dual_constr_sol_ EXCEPT !.len = p2.ncols]
                 ELSE /\ pc' = "failed"
                      /\ UNCHANGED bufs

Initialize ==
  /\ pc = "configured"
  /\ \E failAt \in {"none", "problem", "SetProblem", "SetOptions", "Initialize"} :
       InitializeFrom(failAt)
  /\ UNCHANGED <<locals, utInterruptPending, mexVars>>

\* the user presses Ctrl-C in the host
UserInterrupt ==
  /\ ~utInterruptPending
  /\ utInterruptPending' = TRUE
  /\ hist' = [hist EXCEPT !.interrupts = @ + 1]
  /\ UNCHANGED <<pc, opts_, problem_, backend_, locals, bufs, exc, mexVars>>

(***************************************************************************)
(* Solver::Solve, one action per step of the loop body.                    *)
(***************************************************************************)
\* The iterates of the backend are numbered within a Solve: 0 is the iterate the
\* Solve starts from, k the one its k-th PerformIteration produces and -1 any older
\* one.  A buffer keeps the number of the iterate it was fetched from.
Renumber(v, cur) ==
  IF v.vec = "none" THEN v ELSE [v EXCEPT !.it = IF v.it = cur THEN 0 ELSE -1]

SolveBegin ==
  /\ pc \in {"ready", "done"}
  /\ hist.solves < MaxSolves
  /\ result' = kStoppedMaxIters
  /\ cb_iters' = Schedule(opts_)
  /\ i' = 0
  /\ pc' = "loop"
  /\ hist' = [hist EXCEPT !.solves = @ + 1, !.performs = 0, !.polls = 0, !.fetches = 0,
                          !.cbacks = 0, !.fetchedThisIter = FALSE, !.cbackThisIter = FALSE,
                          !.cbackRet = FALSE, !.cbackArgs = <<>>]
  /\ primal_res' = 0 /\ dual_res' = 0 /\ eps_pri' = 1 /\ eps_dua' = 1
  /\ is_converged' = FALSE /\ is_stopped' = FALSE
  /\ backend_' = [backend_ EXCEPT !.iter = 0]
  /\ cur_primal_sol_' = Renumber(cur_primal_sol_, backend_.iter)
  /\ cur_primal_constr_sol_' = Renumber(cur_primal_constr_sol_, backend_.iter)
  /\ cur_dual_sol_' = Renumber(cur_dual_sol_, backend_.iter)
  /\ cur_dual_constr_sol_' = Renumber(cur_dual_constr_sol_, backend_.iter)
  /\ UNCHANGED <<opts_, problem_, utInterruptPending, exc, mexVars>>

LoopTest ==
  /\ pc = "loop"
  /\ pc' = IF LoopCond(i, opts_) THEN "iterate" ELSE "restore"
  /\ UNCHANGED <<opts_, problem_, backend_, locals, bufs, utInterruptPending, exc, hist, mexVars>>

\* backend_->PerformIteration() and the four residual queries; only the order of a
\* residual and its tolerance matters, so the tolerances are fixed
PerformIteration ==
  /\ pc = "iterate"
  /\ backend_' = [backend_ EXCEPT !.iter = @ + 1]
  /\ \E pr \in 0..MaxRes, dr \in 0..MaxRes : primal_res' = pr /\ dual_res' = dr
  /\ eps_pri' = 1 /\ eps_dua' = 1
  /\ hist' = [hist EXCEPT !.performs = @ + 1, !.fetchedThisIter = FALSE,
                          !.cbackThisIter = FALSE, !.cbackRet = FALSE]
  /\ pc' = "poll"
  /\ UNCHANGED <<opts_, problem_, i, cb_iters, result, is_converged, is_stopped, bufs,
                 utInterruptPending, exc, mexVars>>

\* is_converged = false; is_stopped = stopping_cb_(); the residual test
PollStop ==
  /\ pc = "poll"
  /\ is_stopped' = MexStoppingCallback(utInterruptPending)[1]
  /\ utInterruptPending' = MexStoppingCallback(utInterruptPending)[2]
  /\ is_converged' = ResidualsConverged(primal_res, dual_res, eps_pri, eps_dua)
  /\ hist' = [hist EXCEPT !.polls = @ + 1,
                          !.truePolls = IF is_stopped' THEN @ + 1 ELSE @]
  /\ pc' = "schedule"
  /\ UNCHANGED <<opts_, problem_, backend_, i, cb_iters, result, primal_res, dual_res,
                 eps_pri, eps_dua, bufs, exc, mexVars>>

\* the condition of line 213; front() of an empty list is undefined
CheckSchedule ==
  /\ pc = "schedule"
  /\ IF cb_iters # <<>>
       THEN /\ pc' = IF RunCallbackNow(i, Head(cb_iters), is_converged, is_stopped, opts_)
                       THEN "fetch" ELSE "break"
            /\ hist' = hist
       ELSE /\ pc' \in {"fetch", "break", "crashed"}
            /\ hist' = [hist EXCEPT !.ub = TRUE]
  /\ UNCHANGED <<opts_, problem_, backend_, locals, bufs, utInterruptPending, exc, mexVars>>

\* backend_->current_solution(x, Kx, y, K^T y) into the four buffers
FetchSolution ==
  /\ pc = "fetch"
  /\ cur_primal_sol_' = [len |-> problem_.ncols, vec |-> "x", it |-> backend_.iter]
  /\ cur_primal_constr_sol_' = [len |-> problem_.nrows, vec |-> "Kx", it |-> backend_.iter]
  /\ cur_dual_sol_' = [len |-> problem_.nrows, vec |-> "y", it |-> backend_.iter]
  /\ cur_dual_constr_sol_' = [len |-> problem_.ncols, vec |-> "KTy", it |-> backend_.iter]
  /\ hist' = [hist EXCEPT !.fetches = @ + 1, !.fetchedThisIter = TRUE]
  /\ pc' = IF CallbackEnabled(opts_) THEN "callback" ELSE "pop"
  /\ UNCHANGED <<opts_, problem_, backend_, locals, utInterruptPending, exc, mexVars>>

\* is_converged |= interm_cb_(i + 1, ...); the host function returns ret
IntermCallback ==
  /\ pc = "callback"
  /\ \E ret \in BOOLEAN :
       /\ is_converged' = JoinCallback(is_converged, ret)
       /\ hist' = [hist EXCEPT !.cbacks = @ + 1, !.cbackThisIter = TRUE, !.cbackRet = ret,
                     !.cbackArgs = IntermCallbackArgs(opts_, i, cur_primal_sol_, cur_dual_sol_)]
  /\ pc' = "pop"
  /\ UNCHANGED <<opts_, problem_, backend_, i, cb_iters, result, primal_res, dual_res,
                 eps_pri, eps_dua, is_stopped, bufs, utInterruptPending, exc, mexVars>>

\* cb_iters.pop_front(); undefined on an empty list
PopFront ==
  /\ pc = "pop"
  /\ IF cb_iters # <<>>
       THEN /\ cb_iters' = Tail(cb_iters)
            /\ pc' = "break"
            /\ hist' = hist
       ELSE /\ cb_iters' = <<>>
            /\ pc' \in {"break", "crashed"}
            /\ hist' = [hist EXCEPT !.ub = TRUE]
  /\ UNCHANGED <<opts_, problem_, backend_, i, result, primal_res, dual_res, eps_pri,
                 eps_dua, is_converged, is_stopped, bufs, utInterruptPending, exc, mexVars>>

\* the two break tests and the i++ of the loop
BreakTest ==
  /\ pc = "break"
  /\ IF BreakResult(is_stopped, is_converged) # ""
       THEN /\ result' = BreakResult(is_stopped, is_converged)
            /\ pc' = "restore"
            /\ i' = i
       ELSE /\ result' = result
            /\ pc' = "loop"
            /\ i' = i + 1
  /\ hist' = [hist EXCEPT !.stoppedSolves = IF result' = kStoppedUser THEN @ + 1 ELSE @]
  /\ UNCHANGED <<opts_, problem_, backend_, cb_iters, primal_res, dual_res, eps_pri,
                 eps_dua, is_converged, is_stopped, bufs, utInterruptPending, exc, mexVars>>

\* restore original problem; return result
RestoreAndReturn ==
  /\ pc = "restore"
  /\ IF RestoreNeeded(opts_)
       THEN /\ problem_' = Dualize(problem_)
            /\ opts_' = SwapX0Y0(opts_)
            /\ hist' = [hist EXCEPT !.dualizes = @ + 1]
       ELSE UNCHANGED <<problem_, opts_, hist>>
  /\ pc' = "done"
  /\ UNCHANGED <<backend_, locals, bufs, utInterruptPending, exc, mexVars>>

Next ==
  \/ SetOptions
  \/ Initialize
  \/ UserInterrupt
  \/ SolveBegin
  \/ LoopTest
  \/ PerformIteration
  \/ PollStop
  \/ CheckSchedule
  \/ FetchSolution
  \/ IntermCallback
  \/ PopFront
  \/ BreakTest
  \/ RestoreAndReturn

Spec == Init /\ [][Next]_vars

(***************************************************************************)
(* The command dispatcher mexFunction and its handlers.                    *)
(***************************************************************************)
Commands ==
  {"init", "release", "solve_problem", "eval_linop", "eval_prox", "list_gpus", "set_gpu"}

\* Fields a handler does not get to read (it throws on the argument counts before)
\* stay at their values in BaseCall.
Calls ==
  LET B == BaseCall IN
  {[B EXCEPT !.nrhs = 0, !.nlhs = l] : l \in 0..MaxLhs}
  \cup {[B EXCEPT !.cmd = c, !.nrhs = 1, !.nlhs = l] :
          c \in {"init", "release", "list_gpus", "bogus"}, l \in 0..MaxLhs}
  \cup {[B EXCEPT !.cmd = "set_gpu", !.nrhs = 2, !.gpuId = g] : g \in 0..MaxGpuId}
  \cup {[B EXCEPT !.cmd = "solve_problem", !.nrhs = 6, !.nlhs = l, !.failAt = f,
                  !.solveResult = r] :
          l \in 0..1, f \in {"none", "create", "init"},
          r \in {kConverged, kStoppedMaxIters, kStoppedUser}}
  \cup {[B EXCEPT !.cmd = c, !.nrhs = n, !.nlhs = l] :
          c \in {"eval_linop", "eval_prox"}, n \in 1..MaxRhs, l \in 0..MaxLhs}
  \cup {[B EXCEPT !.cmd = "eval_linop", !.nrhs = 4, !.nlhs = l, !.failAt = f,
                  !.rhsLen = len, !.rhsCols = cols, !.transpose = t,
                  !.nrows = r, !.ncols = c] :
          l \in 3..MaxLhs, f \in {"none", "create", "init"},
          len \in 1..MaxLen, cols \in 1..2, t \in BOOLEAN,
          r \in 1..MaxDim, c \in 1..MaxDim}
  \cup {[B EXCEPT !.cmd = "eval_prox", !.nrhs = n, !.nlhs = l, !.failAt = f,
                  !.rhsLen = len, !.rhsCols = cols, !.size = sz, !.tauLen = tl] :
          n \in 5..MaxRhs, l \in 1..MaxLhs, f \in {"none", "create", "init"},
          len \in 1..MaxLen, cols \in 1..2, sz \in 1..MaxLen, tl \in 1..MaxLen}

\* the lengths of the host arrays x, y, z = Kx, w = K^T y that SolveProblem
\* allocates after Solve
HostOutputLengths(p) ==
  [x |-> p.ncols, y |-> p.nrows, z |-> p.nrows, w |-> p.ncols]

\* the lengths of the solver vectors that SolveProblem copies into x, y, z, w
CopiedLengths(o, primal, primal_constr, dual, dual_constr) ==
  [x |-> cur_primal_sol(o, primal, dual).len,
   y |-> cur_dual_sol(o, primal, dual).len,
   z |-> cur_primal_constr_sol(o, primal_constr, dual_constr).len,
   w |-> cur_dual_constr_sol(o, primal_constr, dual_constr).len]

\* what a handler did: the calls it made, the exception it threw (what(), "" if
\* it returned), the output slots it wrote, whether it read past a host array
Did(log, what, slots, oob) == [log |-> log, thrown |-> what, plhs |-> slots, oob |-> oob]

\* cudaSetDevice(current_gpu_device) succeeds for an existing device
cudaSetDeviceOk(dev) == dev \in 0..(NumGpus - 1)

\* slip: the constant memory is reset after the problem was created
SolveProblemSetup_ResetAfter == <<"CreateProblem", "ResetConstMem">>

\* BlockDiags<real>::ResetConstMem(); ... problem = CreateProblem(...)
SolveProblemSetup == <<"ResetConstMem", "CreateProblem">>

SolveProblemBody(c, dev) ==
  LET l1 == <<"cudaSetDevice", "cudaDeviceReset">> IN
  IF ~cudaSetDeviceOk(dev) THEN Did(l1, "Invalid CUDA device.", {}, FALSE)
  ELSE LET l2 == l1 \o SolveProblemSetup IN
  IF c.failAt = "create" THEN Did(l2, "CreateProblem failed", {}, FALSE)
  ELSE LET l3 == l2 \o <<"CreateBackend", "CreateSolverOptions", "SetOptions",
                         "SetIntermCallback", "SetStoppingCallback", "Initialize">> IN
  IF c.failAt = "init" THEN Did(l3, ProblemFailed, {}, FALSE)
  ELSE Did(l3 \o <<"Solve", "copy", "solver.Release">>, "", {0}, FALSE)

EvalLinOpBody(c, dev) ==
  LET l0 == <<"ResetConstMem">> IN
  IF c.nrhs - 1 # 3 THEN Did(l0, "eval_lin_op: Three inputs required!", {}, FALSE)
  ELSE IF c.nlhs < 3
    THEN Did(l0, "eval_lin_op: At least three outputs (result, rowsum, colsum) required.",
             {}, FALSE)
  ELSE LET l1 == l0 \o <<"cudaSetDevice", "cudaDeviceReset">> IN
  IF ~cudaSetDeviceOk(dev) THEN Did(l1, "Invalid CUDA device.", {}, FALSE)
  ELSE LET l2 == l1 \o <<"CreateBlock">> IN
  IF c.failAt = "create" THEN Did(l2, "CreateBlock failed", {}, FALSE)
  ELSE LET l3 == l2 \o <<"AddBlock">> IN
  IF c.rhsCols # 1
    THEN Did(l3, "Right-hand side input to eval_linop should be a n-times-1 vector!",
             {}, FALSE)
  ELSE LET l4 == l3 \o <<"linop.Initialize">> IN
  IF c.failAt = "init" THEN Did(l4, "linop.Initialize failed", {}, FALSE)
  ELSE LET need == IF c.transpose THEN c.nrows ELSE c.ncols IN
       Did(l4 \o <<IF c.transpose THEN "EvalAdjoint" ELSE "Eval">>, "",
           {0, 1, 2, 3}, need > c.rhsLen)

EvalProxBody(c, dev) ==
  IF c.nrhs - 1 < 4 THEN Did(<<>>, "eval_prox: At least four inputs required.", {}, FALSE)
  ELSE IF c.nlhs = 0 THEN Did(<<>>, "One output (result of prox) required.", {}, FALSE)
  ELSE LET l1 == <<"cudaSetDevice", "cudaDeviceReset">> IN
  IF ~cudaSetDeviceOk(dev) THEN Did(l1, "Invalid CUDA device.", {}, FALSE)
  ELSE IF c.rhsCols # 1 THEN Did(l1, "Input to prox should be a vector!", {}, FALSE)
  ELSE LET l2 == l1 \o <<"CreateProx">> IN
  IF c.failAt = "create" THEN Did(l2, "CreateProx failed", {}, FALSE)
  ELSE LET l3 == l2 \o <<"prox.Initialize">> IN
  IF c.failAt = "init" THEN Did(l3, "prox.Initialize failed", {}, FALSE)
  ELSE IF c.size # c.rhsLen
    THEN Did(l3, "Size of input argument doesn't match size of prox!", {}, FALSE)
  ELSE Did(l3 \o <<"prox.Eval">>, "", {0, 1}, c.rhsLen > c.tauLen)

\* nothing of an earlier invocation is left for the host to look at
HostIdle ==
  /\ call = BaseCall /\ mexlog = <<>> /\ thrown = "" /\ plhs = {}
  /\ ~oobRead /\ hostError = ""

\* the invocation has returned: the host takes its outputs or its error message
HostTakesResult ==
  /\ mexpc = "host" /\ ~HostIdle
  /\ call' = BaseCall
  /\ mexlog' = <<>> /\ thrown' = "" /\ plhs' = {} /\ oobRead' = FALSE /\ hostError' = ""
  /\ UNCHANGED <<solverOnly, utInterruptPending, mexpc, current_gpu_device, lockCount, prox>>

\* the host invokes prost_(command, arg1, ...)
MexCall ==
  /\ mexpc = "host" /\ HostIdle
  /\ \E c \in Calls :
       /\ c.cmd = "init" => lockCount < MaxLock
       /\ call' = c
  /\ mexpc' = "entry"
  /\ mexlog' = <<>> /\ thrown' = "" /\ plhs' = {} /\ oobRead' = FALSE /\ hostError' = ""
  /\ UNCHANGED <<solverOnly, utInterruptPending, current_gpu_device, lockCount, prox>>

\* if(nrhs == 0) mexErrMsgTxt("Usage: ..."): the invocation ends with the message
NoArguments ==
  /\ mexpc = "entry" /\ call.nrhs = 0
  /\ mexlog' = Append(mexlog, "mexErrMsgTxt")
  /\ hostError' = "Usage: prost_(command, arg1, arg2, ...);"
  /\ mexpc' = "host"
  /\ UNCHANGED <<solverOnly, utInterruptPending, call, current_gpu_device, lockCount,
                 thrown, plhs, oobRead, prox>>

\* the handler of the command returned or threw
Finish(did) ==
  /\ mexlog' = mexlog \o did.log
  /\ thrown' = did.thrown
  /\ plhs' = did.plhs
  /\ oobRead' = did.oob
  /\ mexpc' = IF did.thrown = "" THEN "host" ELSE "catch"
  /\ UNCHANGED <<solverOnly, call, hostError, prox>>

\* a handler that read past the end of a host array either goes on with what it
\* read or takes the host process down
FinishOrCrash(did) ==
  \/ Finish(did)
  \/ /\ did.oob
     /\ mexlog' = mexlog \o did.log
     /\ thrown' = ""
     /\ plhs' = {}
     /\ oobRead' = TRUE
     /\ mexpc' = "crashed"
     /\ UNCHANGED <<solverOnly, call, hostError, prox>>

Dispatched(cmd) == mexpc = "entry" /\ call.nrhs > 0 /\ call.cmd = cmd

InitCmd ==
  /\ Dispatched("init")
  /\ lockCount' = lockCount + 1
  /\ Finish(Did(<<"mexLock">>, "", {}, FALSE))
  /\ UNCHANGED <<utInterruptPending, current_gpu_device>>

\* mexUnlock() of a module that is not locked does nothing
mexUnlock(n) == IF n > 0 THEN n - 1 ELSE 0

ReleaseCmd ==
  /\ Dispatched("release")
  /\ lockCount' = mexUnlock(lockCount)
  /\ Finish(Did(<<"mexUnlock", "cudaDeviceReset">>, "", {}, FALSE))
  /\ UNCHANGED <<utInterruptPending, current_gpu_device>>

\* Solve polls the interrupt flag once per iteration: StoppedUser consumed it, any
\* other result saw none at its polls; the user may interrupt again at any time
SolveProblem ==
  /\ Dispatched("solve_problem")
  /\ LET did == SolveProblemBody(call, current_gpu_device) IN
       /\ Finish(did)
       /\ IF did.thrown # ""
            THEN utInterruptPending' = utInterruptPending
            ELSE utInterruptPending' \in
                   (IF call.solveResult = kStoppedUser \/ ~utInterruptPending
                      THEN BOOLEAN ELSE {TRUE})
  /\ UNCHANGED <<current_gpu_device, lockCount>>

EvalLinOp ==
  /\ Dispatched("eval_linop")
  /\ FinishOrCrash(EvalLinOpBody(call, current_gpu_device))
  /\ UNCHANGED <<utInterruptPending, current_gpu_device, lockCount>>

EvalProx ==
  /\ Dispatched("eval_prox")
  /\ FinishOrCrash(EvalProxBody(call, current_gpu_device))
  /\ UNCHANGED <<utInterruptPending, current_gpu_device, lockCount>>

ListGPUs ==
  /\ Dispatched("list_gpus")
  /\ Finish(Did(<<"cudaGetDeviceCount">>, "", {}, FALSE))
  /\ UNCHANGED <<utInterruptPending, current_gpu_device, lockCount>>

SetGPU ==
  /\ Dispatched("set_gpu")
  /\ current_gpu_device' = call.gpuId
  /\ Finish(Did(<<>>, "", {}, FALSE))
  /\ UNCHANGED <<utInterruptPending, lockCount>>

\* if(!executed) throw Exception("Unknown command ...")
UnknownCommand ==
  /\ mexpc = "entry" /\ call.nrhs > 0 /\ call.cmd \notin Commands
  /\ Finish(Did(<<>>, "Unknown command", {}, FALSE))
  /\ UNCHANGED <<utInterruptPending, current_gpu_device, lockCount>>

\* catch(const Exception& e) { mexErrMsgTxt(e.what()); Release(...); }
\* mexErrMsgTxt ends the invocation and hands control back to the host, so the
\* Release that follows it is not executed.
CatchException ==
  /\ mexpc = "catch"
  /\ mexlog' = Append(mexlog, "mexErrMsgTxt")
  /\ hostError' = thrown
  /\ mexpc' = "host"
  /\ UNCHANGED <<solverOnly, utInterruptPending, call, current_gpu_device, lockCount,
                 thrown, plhs, oobRead, prox>>

\* the user presses Ctrl-C while the dispatcher is in use
HostInterrupt ==
  /\ ~utInterruptPending
  /\ utInterruptPending' = TRUE
  /\ UNCHANGED <<solverOnly, mexVars>>

MexInit == SolverStart(1, 1) /\ MexStart /\ prox = NoProx

MexNext ==
  \/ MexCall
  \/ HostTakesResult
  \/ NoArguments
  \/ InitCmd
  \/ ReleaseCmd
  \/ SolveProblem
  \/ EvalLinOp
  \/ EvalProx
  \/ ListGPUs
  \/ SetGPU
  \/ UnknownCommand
  \/ CatchException
  \/ HostInterrupt

MexSpec == MexInit /\ [][MexNext]_vars

\* the steps of one Solve; the callbacks terminate, so a running Solve keeps stepping
SolveStep ==
  \/ LoopTest \/ PerformIteration \/ PollStop \/ CheckSchedule \/ FetchSolution
  \/ IntermCallback \/ PopFront \/ BreakTest \/ RestoreAndReturn

FairSpec == Spec /\ WF_vars(SolveStep)

(***************************************************************************)
(* Properties of Solver::Solve.                                            *)
(***************************************************************************)
InLoopBody == pc \in {"poll", "schedule", "fetch", "callback", "pop", "break"}
AfterPoll == pc \in {"schedule", "fetch", "callback", "pop", "break"}
Running == pc \in {"loop", "iterate"} \/ InLoopBody \/ pc = "restore"
Returned == pc = "done"

\* C1: the stopping callback is polled once per performed iteration, after that
\* iteration's PerformIteration; once a poll returned true no PerformIteration
\* follows and Solve returns StoppedUser (and only then).
C1_PollOncePerIteration ==
  /\ (Running \/ Returned) =>
        hist.polls = (IF pc = "poll" THEN hist.performs - 1 ELSE hist.performs)
  /\ InLoopBody => hist.performs = i + 1
  /\ is_stopped => (AfterPoll \/ pc \in {"restore", "done"}) /\ hist.performs = i + 1
  /\ Returned => (result = kStoppedUser <=> is_stopped)

C1_Witness ==
  Returned /\ result = kStoppedUser /\ hist.performs = 2 /\ hist.polls = 2
    /\ opts_.max_iters = 3

\* C2: Solve returns Converged exactly when, in the last iteration it performed, the
\* stop poll was false and either both residuals were strictly below their
\* tolerances or the intermediate callback of that iteration returned true.
C2_ConvergedIff ==
  Returned =>
    (result = kConverged <=>
       /\ hist.performs >= 1
       /\ ~is_stopped
       /\ \/ primal_res < eps_pri /\ dual_res < eps_dua
          \/ hist.cbackThisIter /\ hist.cbackRet)

C2_Witness ==
  Returned /\ result = kConverged /\ primal_res = eps_pri /\ hist.cbackRet

\* C3: Solve performs at most max_iters iterations, every started Solve returns, and
\* it returns StoppedMaxIters exactly when it performed max_iters iterations and in
\* none of them the stop poll was true or convergence was established.
C3_Bounded ==
  /\ (Running \/ Returned) => hist.performs <= opts_.max_iters
  /\ Returned =>
       (result = kStoppedMaxIters <=>
          hist.performs = opts_.max_iters /\ ~is_stopped /\ ~is_converged)

C3_Terminates == [](C3_Bounded) /\ (Running ~> Returned)

C3_Witness ==
  Returned /\ result = kStoppedMaxIters /\ hist.performs = MaxIters

\* C4: when a Solve with max_iters >= 1 returns, the four solution buffers hold the
\* iterate of the last PerformIteration: the last fetch came after it.
C4_LastIterateFetched ==
  /\ (pc \in {"restore", "done"} /\ opts_.max_iters >= 1) =>
       /\ hist.fetchedThisIter
       /\ cur_primal_sol_ = [len |-> cur_primal_sol_.len, vec |-> "x", it |-> backend_.iter]
       /\ cur_primal_constr_sol_.vec = "Kx" /\ cur_primal_constr_sol_.it = backend_.iter
       /\ cur_dual_sol_.vec = "y" /\ cur_dual_sol_.it = backend_.iter
       /\ cur_dual_constr_sol_.vec = "KTy" /\ cur_dual_constr_sol_.it = backend_.iter
  /\ hist.fetchedThisIter => cur_primal_sol_.it = backend_.iter

C4_Witness ==
  Returned /\ result = kStoppedMaxIters /\ opts_.max_iters = 3
    /\ opts_.num_cback_calls = 0 /\ hist.fetches = 1 /\ cur_primal_sol_.it = 3

\* C5: once an invocation of the intermediate callback returned true, no
\* PerformIteration follows in this Solve and the iteration ends with a stop:
\* Converged when the stop poll of the iteration was false, StoppedUser otherwise.
C5_CallbackStops ==
  (hist.cbackThisIter /\ hist.cbackRet) =>
     /\ pc \in {"pop", "break", "restore", "done"}
     /\ is_converged
     /\ hist.performs = i + 1
     /\ Returned => result = (IF is_stopped THEN kStoppedUser ELSE kConverged)

C5_Witness ==
  Returned /\ hist.cbackRet /\ result = kConverged /\ primal_res >= eps_pri
    /\ hist.performs < opts_.max_iters

Min(a, b) == IF a <= b THEN a ELSE b

C11_InitializeFailureWrapped ==
  /\ pc = "failed" <=> exc # NoException
  /\ pc = "failed" =>
       /\ cur_primal_sol_ = EmptyVec /\ cur_primal_constr_sol_ = EmptyVec
       /\ cur_dual_sol_ = EmptyVec /\ cur_dual_constr_sol_ = EmptyVec
       /\ ~problem_.initialized =>
            /\ exc = ProblemFailed
            /\ hist.dualizes = 0 /\ ~problem_.dualized
            /\ ~backend_.hasProblem /\ ~backend_.hasOptions /\ ~backend_.initialized
       /\ problem_.initialized =>
            /\ exc = BackendFailed
            /\ ~backend_.initialized

C11_Witness ==
  pc = "failed" /\ exc = ProblemFailed /\ opts_.solve_dual_problem
    /\ ~problem_.dualized /\ ~backend_.hasProblem /\ cur_primal_sol_.len = 0

(***************************************************************************)
(* Long runs with the schedule disabled.  The loop head reached after k    *)
(* iterations that neither converged nor were stopped, with                *)
(* num_cback_calls < 2 and k <= CbDisabled, has the shape QuietLoopHead:   *)
(* nothing was fetched or popped, and every iteration repeats the same     *)
(* steps.  LongSpec starts a Solve there, two iterations below CbDisabled, *)
(* instead of stepping through 10^8 iterations.                            *)
(***************************************************************************)
QuietLoopHead(o, r, c, k, pending) ==
  LET p0 == [nrows |-> r, ncols |-> c, dualized |-> FALSE, initialized |-> TRUE]
      p == IF DualizeAtInit(o) THEN Dualize(p0) ELSE p0
  IN /\ pc = "loop"
     /\ opts_ = (IF DualizeAtInit(o) THEN SwapX0Y0(o) ELSE o)
     /\ problem_ = p
     /\ backend_ = [hasProblem |-> TRUE, hasOptions |-> TRUE, initialized |-> TRUE, iter |-> k]
     /\ i = k /\ cb_iters = Schedule(o) /\ result = kStoppedMaxIters
     /\ primal_res = 1 /\ dual_res = 1 /\ eps_pri = 1 /\ eps_dua = 1
     /\ is_converged = FALSE /\ is_stopped = FALSE
     /\ cur_primal_sol_ = [EmptyVec EXCEPT !.len = p.ncols]
     /\ cur_primal_constr_sol_ = [EmptyVec EXCEPT !.len = p.nrows]
     /\ cur_dual_sol_ = [EmptyVec EXCEPT !.len = p.nrows]
     /\ cur_dual_constr_sol_ = [EmptyVec EXCEPT !.len = p.ncols]
     /\ utInterruptPending = pending
     /\ exc = NoException
     /\ hist = [NoHist EXCEPT !.solves = 1, !.inits = 1, !.performs = k, !.polls = k,
                              !.dualizes = IF DualizeAtInit(o) THEN 1 ELSE 0,
                              !.interrupts = IF pending THEN 1 ELSE 0]

LongOptionSet ==
  [max_iters : {CbDisabled + d : d \in 0..MaxIters}, num_cback_calls : 0..1,
   solve_dual_problem : BOOLEAN, x0 : {"x0"}, y0 : {"y0"}]

LongInit ==
  /\ \E o \in LongOptionSet, r \in 1..MaxDim, pending \in BOOLEAN :
       QuietLoopHead(o, r, 1, CbDisabled - 2, pending)
  /\ MexStart
  /\ prox = NoProx

LongNext ==
  \/ UserInterrupt
  \/ LoopTest
  \/ PerformIteration
  \/ PollStop
  \/ CheckSchedule
  \/ FetchSolution
  \/ IntermCallback
  \/ PopFront
  \/ BreakTest
  \/ RestoreAndReturn

LongSpec == LongInit /\ [][LongNext]_vars

\* under Spec: the shape is the one the loop head has after two quiet iterations
QuietLoopHeadReached ==
  \E o \in OptionSet, r \in 1..MaxDim, pending \in BOOLEAN :
     o.num_cback_calls < 2 /\ o.max_iters = 3 /\ QuietLoopHead(o, r, 1, 2, pending)

\* under LongSpec: one more quiet iteration leads to the same shape
QuietLoopHeadStep ==
  \E o \in LongOptionSet, r \in 1..MaxDim, pending \in BOOLEAN :
     QuietLoopHead(o, r, 1, CbDisabled - 1, pending)

\* C7: with num_cback_calls < 2 the solution is fetched (and the callback invoked)
\* only in an iteration that is converged, stopped by the user or the last one.
C7_FetchOnlyAtEnd ==
  (opts_.num_cback_calls < 2 /\ pc \in {"fetch", "callback"}) =>
     (is_converged \/ is_stopped \/ i = opts_.max_iters - 1)

\* C8: the intermediate callback invoked at loop index i receives i+1 and the
\* buffers fetched in that iteration, (primal, dual) when solve_dual_problem is
\* false and (dual, primal) when it is true: the pair cur_primal_sol(),
\* cur_dual_sol() return.
C8_CallbackArguments ==
  (hist.cbackThisIter /\ pc \in {"pop", "break", "restore", "done"}) =>
     /\ pc \in {"pop", "break"} => hist.cbackArgs[1] = i + 1
     /\ hist.cbackArgs[1] = hist.performs
     /\ hist.cbackArgs[2].it = backend_.iter /\ hist.cbackArgs[3].it = backend_.iter
     /\ ~opts_.solve_dual_problem =>
          hist.cbackArgs[2] = cur_primal_sol_ /\ hist.cbackArgs[3] = cur_dual_sol_
     /\ opts_.solve_dual_problem =>
          hist.cbackArgs[2] = cur_dual_sol_ /\ hist.cbackArgs[3] = cur_primal_sol_
     /\ hist.cbackArgs[2] = cur_primal_sol(opts_, cur_primal_sol_, cur_dual_sol_)
     /\ hist.cbackArgs[3] = cur_dual_sol(opts_, cur_primal_sol_, cur_dual_sol_)

C8_Witness ==
  /\ pc = "pop" /\ opts_.solve_dual_problem /\ i = 1
  /\ hist.cbackArgs = <<2, cur_dual_sol_, cur_primal_sol_>>
  /\ cur_dual_sol_.vec = "y" /\ cur_primal_sol_.vec = "x"

\* C9: with solve_dual_problem set, Initialize dualizes once and swaps x0/y0, and
\* the Solve that follows dualizes and swaps once more on every exit path, so the
\* problem is in its original orientation when that Solve returns; without the
\* option Dualize is never called.
C9_DualizeRestored ==
  /\ ~opts_.solve_dual_problem => hist.dualizes = 0 /\ ~problem_.dualized
  /\ (opts_.solve_dual_problem /\ (pc = "ready" \/ (Running /\ hist.solves = 1))) =>
       /\ hist.dualizes = 1 /\ problem_.dualized
       /\ opts_.x0 = "y0" /\ opts_.y0 = "x0"
  /\ (opts_.solve_dual_problem /\ Returned /\ hist.solves = 1) =>
       /\ hist.dualizes = 2 /\ ~problem_.dualized
       /\ opts_.x0 = "x0" /\ opts_.y0 = "y0"

C9_Witness ==
  Returned /\ hist.solves = 1 /\ opts_.solve_dual_problem /\ opts_.max_iters = 0
    /\ hist.dualizes = 2 /\ ~problem_.dualized

\* C18: when the stop poll of an iteration returned true and convergence was
\* established in the same iteration (residuals below the tolerances or the
\* callback returned true), Solve returns StoppedUser, and with
\* num_cback_calls >= 1 the intermediate callback was invoked in that iteration.
C18_StopPrecedence ==
  (is_stopped /\ is_converged /\ pc \in {"restore", "done"}) =>
     /\ result = kStoppedUser
     /\ hist.fetchedThisIter
     /\ opts_.num_cback_calls >= 1 =>
          hist.cbackThisIter /\ hist.cbackArgs[1] = hist.performs

C18_Witness ==
  /\ Returned /\ result = kStoppedUser /\ is_stopped
  /\ primal_res < eps_pri /\ dual_res < eps_dua
  /\ opts_.num_cback_calls = 1 /\ hist.cbackThisIter /\ hist.cbacks = 1
  /\ hist.performs = 2 /\ opts_.max_iters = 3

\* C19: cb_iters is not empty when cb_iters.front() is evaluated (line 213) and
\* when pop_front() is executed (line 238).
C19_ScheduleNeverReadEmpty ==
  pc \in {"schedule", "pop"} => cb_iters # <<>>

\* C20: in every Solve after one Initialize each PerformIteration runs on the
\* dualized problem exactly when solve_dual_problem is set, and the problem is in
\* its original orientation whenever a Solve has returned.
C20_SolveSelfContained ==
  /\ InLoopBody => (problem_.dualized <=> opts_.solve_dual_problem)
  /\ Returned => ~problem_.dualized

\* C21: when Initialize raised an exception (from the problem or from the
\* backend), the problem's orientation and the order of x0 and y0 in the options
\* are what they were before the call.
C21_FailedInitializeKeepsOrientation ==
  pc = "failed" =>
     /\ ~problem_.dualized
     /\ opts_.x0 = "x0" /\ opts_.y0 = "y0"

\* C23: after the Solve of solve_problem (one Initialize, one Solve), for both
\* values of solve_dual_problem, each host array x, y, Kx, K^T y allocated from
\* problem.ncols()/nrows() has the length of the solver vector copied into it.
C23_HostArraysFit ==
  (Returned /\ hist.solves = 1) =>
     HostOutputLengths(problem_) =
       CopiedLengths(opts_, cur_primal_sol_, cur_primal_constr_sol_,
                     cur_dual_sol_, cur_dual_constr_sol_)

C23_Witness ==
  /\ Returned /\ hist.solves = 1 /\ opts_.solve_dual_problem /\ hist.fetches >= 1
  /\ problem_.nrows = 2 /\ problem_.ncols = 1
  /\ cur_primal_sol_.len = 2 /\ cur_dual_sol_.len = 1
  /\ HostOutputLengths(problem_) = [x |-> 1, y |-> 2, z |-> 2, w |-> 1]

\* every interrupt is pending or was consumed by one true poll; a Solve is
\* stopped by a true poll of its own
InterruptsAccounted ==
  /\ hist.interrupts = hist.truePolls + (IF utInterruptPending THEN 1 ELSE 0)
  /\ hist.stoppedSolves <= hist.truePolls
  /\ (Returned /\ result = kStoppedUser /\ hist.interrupts = 1) =>
       /\ ~utInterruptPending
       /\ hist.truePolls = 1 /\ hist.stoppedSolves = 1

\* a poll returns true exactly when an interrupt is pending and then clears the
\* flag; a poll that returns false leaves the flag as it is
PollConsumesOnce ==
  PollStop =>
     /\ is_stopped' = utInterruptPending
     /\ is_stopped' => ~utInterruptPending'
     /\ ~is_stopped' => utInterruptPending' = utInterruptPending

\* C24: the stopping callback polls with consume-once semantics: a poll returns
\* true exactly when an interrupt is pending and clears the flag, a false poll
\* leaves the flag unchanged; so the true polls are as many as the interrupts
\* consumed, one interrupt stops at most one Solve, and after a single interrupt
\* the flag is not pending when the Solve returns StoppedUser.
C24_ConsumeOnce == [](InterruptsAccounted) /\ [][PollConsumesOnce]_vars

C24_Witness ==
  /\ Returned /\ result = kStoppedUser /\ hist.solves = 2
  /\ hist.interrupts = 1 /\ hist.truePolls = 1 /\ hist.stoppedSolves = 1
  /\ ~utInterruptPending /\ hist.polls = 2

(***************************************************************************)
(* Properties of the dispatcher.                                           *)
(***************************************************************************)
\* the log has an mexUnlock and then a cudaDeviceReset after its mexErrMsgTxt
ReleasedAfterReport(log) ==
  \E a, b, c \in 1..Len(log) :
     /\ a < b /\ b < c
     /\ log[a] = "mexErrMsgTxt" /\ log[b] = "mexUnlock" /\ log[c] = "cudaDeviceReset"

\* C10: an invocation whose handler raised an exception (an unknown command
\* included) ends with the message reported to the host and with Release executed
\* (mexUnlock and cudaDeviceReset).
C10_ErrorReportedAndReleased ==
  (mexpc = "host" /\ thrown # "") =>
     (hostError = thrown /\ ReleasedAfterReport(mexlog))

\* the calls that set up or run a problem or an operator
SetupCalls ==
  {"CreateProblem", "CreateBackend", "CreateBlock", "AddBlock", "Initialize",
   "linop.Initialize", "Solve", "Eval", "EvalAdjoint"}

\* the positions of the log that hold one of the calls
Positions(log, calls) == {k \in 1..Len(log) : log[k] \in calls}

\* C12: in a solve_problem or eval_linop invocation ResetConstMem is executed
\* before any block or problem is created and before Initialize, Solve, Eval or
\* EvalAdjoint run: every such call of the invocation has the one ResetConstMem of
\* the invocation before it, and eval_linop executes it first of all.
C12_ResetConstMemFirst ==
  (mexpc \in {"host", "catch"} /\ call.cmd \in {"solve_problem", "eval_linop"}
     /\ call.nrhs > 0) =>
     /\ \A k \in Positions(mexlog, SetupCalls) :
          \E j \in Positions(mexlog, {"ResetConstMem"}) : j < k
     /\ Cardinality(Positions(mexlog, {"ResetConstMem"})) <= 1
     /\ call.cmd = "eval_linop" => mexlog[1] = "ResetConstMem"
     /\ (call.cmd = "solve_problem" /\ thrown # "Invalid CUDA device.") =>
          Positions(mexlog, {"ResetConstMem"}) # {}

C12_Witness ==
  /\ mexpc = "host" /\ call.cmd = "solve_problem" /\ thrown = ""
  /\ Positions(mexlog, {"ResetConstMem"}) = {3}
  /\ Positions(mexlog, {"CreateProblem", "Solve"}) = {4, 11}

\* the invocation of the handler cmd is over
Ended(cmd) == mexpc \in {"host", "crashed"} /\ call.nrhs > 0 /\ call.cmd = cmd

\* the number of entries the handler reads from the right-hand side
InputDimension(c) == IF c.transpose THEN c.nrows ELSE c.ncols

\* C13: an eval_linop invocation whose right-hand side length differs from the
\* operator's input dimension (ncols forward, nrows transposed) ends with an error,
\* reads nothing beyond the supplied array and does not evaluate the operator.
C13_MismatchedRhsFails ==
  (Ended("eval_linop") /\ call.rhsLen # InputDimension(call)) =>
     /\ hostError # ""
     /\ ~oobRead
     /\ Positions(mexlog, {"Eval", "EvalAdjoint"}) = {}

\* C14: eval_prox calls Prox.Eval only when the argument and tau_diag both have
\* prox.size() entries; with any other lengths the invocation ends with an error
\* and without Prox.Eval.
C14_ProxLengthsChecked ==
  Ended("eval_prox") =>
     /\ Positions(mexlog, {"prox.Eval"}) # {} =>
          call.rhsLen = call.size /\ call.tauLen = call.size
     /\ (call.rhsLen # call.size \/ call.tauLen # call.size) => hostError # ""
     /\ ~oobRead

\* C22: a handler that got past its own argument-count checks writes only
\* output slots the caller provided: every written plhs[k] has k < max(1, nlhs).
C22_WritesOnlyProvidedSlots ==
  (mexpc = "host" /\ call.nrhs > 0) =>
     \A k \in plhs : k < (IF call.nlhs > 1 THEN call.nlhs ELSE 1)

(***************************************************************************)
(* The 1D prox functions of function_1d.hpp.  A value of type T is a       *)
(* fraction <<n, d>> in lowest terms with d > 0, or <<1, 0>> (+inf),       *)
(* <<-1, 0>> (-inf), <<0, 0>> (NaN): a division by zero gives an infinity  *)
(* or NaN, as it does in floating point.  Rounding is not modelled.        *)
(***************************************************************************)
Sign(n) == IF n > 0 THEN 1 ELSE IF n < 0 THEN -1 ELSE 0
AbsInt(n) == IF n < 0 THEN -n ELSE n

RECURSIVE GCD(_, _)
GCD(a, b) == IF b = 0 THEN a ELSE GCD(b, a % b)

\* the value n/d
Frac(n, d) ==
  IF d = 0 THEN <<Sign(n), 0>>
  ELSE LET g == GCD(AbsInt(n), AbsInt(d))
       IN <<(Sign(d) * n) \div g, AbsInt(d) \div g>>

Zero == <<0, 1>>
One == <<1, 1>>
Two == <<2, 1>>
NaN == <<0, 0>>

IsNaN(a) == a = NaN
IsFinite(a) == a[2] > 0

Neg(a) == <<-a[1], a[2]>>
AbsQ(a) == <<AbsInt(a[1]), a[2]>>
Mul(a, b) == Frac(a[1] * b[1], a[2] * b[2])
Div(a, b) == Frac(a[1] * b[2] * (IF b[1] < 0 THEN -1 ELSE 1), a[2] * AbsInt(b[1]))
Add(a, b) ==
  IF a[2] = 0 /\ b[2] = 0 THEN (IF a = b THEN a ELSE NaN)
  ELSE Frac(a[1] * b[2] + b[1] * a[2], a[2] * b[2])
Sub(a, b) == Add(a, Neg(b))

\* comparisons; any comparison with NaN is false
Lt(a, b) ==
  IF IsNaN(a) \/ IsNaN(b) THEN FALSE
  ELSE IF a[2] = 0 /\ b[2] = 0 THEN a[1] < b[1]
  ELSE a[1] * b[2] < b[1] * a[2]
Leq(a, b) == ~IsNaN(a) /\ ~IsNaN(b) /\ (a = b \/ Lt(a, b))
Gt(a, b) == Lt(b, a)
Geq(a, b) == Leq(b, a)

\* max(a, b) of the device: the other operand when one is NaN
Max(a, b) == IF IsNaN(b) THEN a ELSE IF IsNaN(a) THEN b ELSE IF Lt(a, b) THEN b ELSE a

Function1DZero(x0, tau, alpha, beta) == x0

\* slip: the branch of the negative arguments is missing
Function1DAbs_NoNeg(x0, tau, alpha, beta) ==
  IF Geq(x0, tau) THEN Sub(x0, tau) ELSE Zero

Function1DAbs(x0, tau, alpha, beta) ==
  IF Geq(x0, tau) THEN Sub(x0, tau)
  ELSE IF Leq(x0, Neg(tau)) THEN Add(x0, tau)
  ELSE Zero

Function1DSquare(x0, tau, alpha, beta) == Div(x0, Add(One, tau))

Function1DIndLeq0(x0, tau, alpha, beta) == IF Gt(x0, Zero) THEN Zero ELSE x0

Function1DIndGeq0(x0, tau, alpha, beta) == IF Lt(x0, Zero) THEN Zero ELSE x0

Function1DIndEq0(x0, tau, alpha, beta) == Zero

\* slip: the upper end of the box is not enforced
Function1DIndBox01_NoUpper(x0, tau, alpha, beta) == IF Lt(x0, Zero) THEN Zero ELSE x0

Function1DIndBox01(x0, tau, alpha, beta) ==
  IF Gt(x0, One) THEN One
  ELSE IF Lt(x0, Zero) THEN Zero
  ELSE x0

Function1DMaxPos0(x0, tau, alpha, beta) ==
  IF Gt(x0, tau) THEN Sub(x0, tau)
  ELSE IF Lt(x0, Zero) THEN x0
  ELSE Zero

Function1DL0(x0, tau, alpha, beta) ==
  IF Gt(Mul(x0, x0), Mul(Two, tau)) THEN x0 ELSE Zero

\* T result = (x0 / tau) / (1 + alpha / tau)
HuberQuotient(x0, tau, alpha) == Div(Div(x0, tau), Add(One, Div(alpha, tau)))

Function1DHuber(x0, tau, alpha, beta) ==
  LET r1 == HuberQuotient(x0, tau, alpha)
      r2 == Div(r1, Max(One, AbsQ(r1)))
  IN Sub(x0, Mul(tau, r2))

\* the values a function divides by
Divisors(fn, x0, tau, alpha) ==
  IF fn = "square" THEN {Add(One, tau)}
  ELSE IF fn = "huber"
    THEN {tau, Add(One, Div(alpha, tau)), Max(One, AbsQ(HuberQuotient(x0, tau, alpha)))}
  ELSE {}

Functions1D ==
  {"zero", "abs", "square", "ind_leq0", "ind_geq0", "ind_eq0", "ind_box01",
   "max_pos0", "l0", "huber"}

\* operator() of the function named fn
Apply1D(fn, x0, tau, alpha, beta) ==
  CASE fn = "zero" -> Function1DZero(x0, tau, alpha, beta)
    [] fn = "abs" -> Function1DAbs(x0, tau, alpha, beta)
    [] fn = "square" -> Function1DSquare(x0, tau, alpha, beta)
    [] fn = "ind_leq0" -> Function1DIndLeq0(x0, tau, alpha, beta)
    [] fn = "ind_geq0" -> Function1DIndGeq0(x0, tau, alpha, beta)
    [] fn = "ind_eq0" -> Function1DIndEq0(x0, tau, alpha, beta)
    [] fn = "ind_box01" -> Function1DIndBox01(x0, tau, alpha, beta)
    [] fn = "max_pos0" -> Function1DMaxPos0(x0, tau, alpha, beta)
    [] fn = "l0" -> Function1DL0(x0, tau, alpha, beta)
    [] fn = "huber" -> Function1DHuber(x0, tau, alpha, beta)

Grid(lo, hi) == {Frac(k, MaxDen) : k \in lo..hi}

ProxInit ==
  /\ SolverStart(1, 1)
  /\ MexStart
  /\ \E fn \in Functions1D, x0 \in Grid(-MaxNum, MaxNum), tau \in Grid(-1, MaxNum),
        alpha \in Grid(-1, MaxNum), beta \in Grid(-1, 1) :
       prox = [fn |-> fn, x0 |-> x0, tau |-> tau, alpha |-> alpha, beta |-> beta,
               stage |-> "in", result |-> Zero, again |-> Zero]

\* the function is applied to x0
Eval1D ==
  /\ prox.stage = "in"
  /\ prox' = [prox EXCEPT !.stage = "out",
                !.result = Apply1D(prox.fn, prox.x0, prox.tau, prox.alpha, prox.beta)]
  /\ UNCHANGED <<solverOnly, utInterruptPending, mexpc, call, current_gpu_device,
                 lockCount, mexlog, thrown, plhs, oobRead, hostError>>

\* the function is applied to what it returned
EvalAgain ==
  /\ prox.stage = "out"
  /\ prox' = [prox EXCEPT !.stage = "twice",
                !.again = Apply1D(prox.fn, prox.result, prox.tau, prox.alpha, prox.beta)]
  /\ UNCHANGED <<solverOnly, utInterruptPending, mexpc, call, current_gpu_device,
                 lockCount, mexlog, thrown, plhs, oobRead, hostError>>

ProxNext == Eval1D \/ EvalAgain

ProxSpec == ProxInit /\ [][ProxNext]_vars

(***************************************************************************)
(* Properties of the 1D prox functions.                                    *)
(***************************************************************************)
Applied == prox.stage \in {"out", "twice"}

Indicators == {"ind_leq0", "ind_geq0", "ind_eq0", "ind_box01"}

\* the set a function is the indicator of
InSet(fn, v) ==
  /\ IsFinite(v)
  /\ CASE fn = "ind_leq0" -> Leq(v, Zero)
       [] fn = "ind_geq0" -> Geq(v, Zero)
       [] fn = "ind_eq0" -> v = Zero
       [] fn = "ind_box01" -> Geq(v, Zero) /\ Leq(v, One)

\* C15: an indicator prox is the projection onto its set for every x0, tau, alpha,
\* beta: the result lies in the set, no point of the set is nearer to x0, the
\* result is x0 when x0 lies in the set, and a second application changes nothing.
C15_IndicatorProjection ==
  (Applied /\ prox.fn \in Indicators) =>
     /\ InSet(prox.fn, prox.result)
     /\ \A z \in Grid(-MaxNum, MaxNum) :
          InSet(prox.fn, z) =>
            Leq(AbsQ(Sub(prox.x0, prox.result)), AbsQ(Sub(prox.x0, z)))
     /\ InSet(prox.fn, prox.x0) => prox.result = prox.x0
     /\ prox.stage = "twice" => prox.again = prox.result

C15_Witness ==
  /\ prox.stage = "twice" /\ prox.fn = "ind_box01" /\ prox.x0 = Frac(MaxNum, MaxDen)
  /\ Gt(prox.x0, One)
  /\ prox.tau = Frac(-1, MaxDen)
  /\ prox.result = One /\ prox.again = One

\* x clamped to [lo, hi]
Clamp(x, lo, hi) == IF Lt(x, lo) THEN lo ELSE IF Gt(x, hi) THEN hi ELSE x

\* sign(x) * max(|x| - t, 0)
SoftThreshold(x, t) == Mul(<<Sign(x[1]), 1>>, Max(Sub(AbsQ(x), t), Zero))

\* C16: for tau >= 0 Function1DAbs(x0, tau) is sign(x0) * max(|x0| - tau, 0), and
\* x0 minus it is x0 clamped to [-tau, tau].
C16_AbsSoftThreshold ==
  (Applied /\ prox.fn = "abs" /\ Geq(prox.tau, Zero)) =>
     /\ prox.result = SoftThreshold(prox.x0, prox.tau)
     /\ Sub(prox.x0, prox.result) = Clamp(prox.x0, Neg(prox.tau), prox.tau)

C16_Witness ==
  /\ prox.stage = "out" /\ prox.fn = "abs" /\ prox.x0 = Frac(-MaxNum, MaxDen)
  /\ prox.tau = Frac(1, MaxDen) /\ prox.result = Frac(1 - MaxNum, MaxDen)

NonIndicators == {"zero", "abs", "square", "max_pos0", "l0", "huber"}

\* C17: at tau = 0, for every x0 and alpha >= 0, each of Zero, Abs, Square,
\* MaxPos0, L0 and Huber divides by nothing that is zero and returns x0.
C17_VanishingStep ==
  (Applied /\ prox.fn \in NonIndicators /\ prox.tau = Zero /\ Geq(prox.alpha, Zero)) =>
     /\ Zero \notin Divisors(prox.fn, prox.x0, prox.tau, prox.alpha)
     /\ prox.result = prox.x0

====
